---------------------------- MODULE Spec2Model ----------------------------
(***************************************************************************)
(* Model of the batch conversion-and-deidentification scripts              *)
(*   src/ometiff_dir_convert_and_deidentify4.py   (version 4, chunked)     *)
(*   src/ometiff_dir_convert_and_deidentify.py    (version 1, sequential)  *)
(*                                                                         *)
(* A Python str is modelled as a sequence of one-character strings, so     *)
(* that split, join and concatenation are computed and not assumed.        *)
(***************************************************************************)
EXTENDS Integers, Sequences, FiniteSets, TLC

VARIABLES
    version,            \* which script runs: 1 or 4
    skip1, skip2, rgb,  \* args.skip_bioformats2raw, args.skip_raw2ometiff, args.rgb
    input_dir,          \* str
    output_dir,         \* str
    dirListing,         \* input_dir on disk: whether it exists, its entries in os.listdir order
    pc,                 \* position of the script
    error,              \* the uncaught exception that ended the script, or NoError
    files_to_convert,   \* list of str
    raw_dirs,           \* list of str
    out_files,          \* list of str
    chunked_files_to_convert,
    chunked_raw_dirs,
    chunked_out_files,
    num_chunks,
    i,                  \* loop index of the current stage loop
    launched,           \* tasks of the current pool already taken by a worker
    calls,              \* every external invocation so far, in launch order
    m,                  \* iterations of the metadata loop completed
    res_list,           \* list of one-row dataframes (rows)
    tiff,               \* embedded comment of each output file read or written so far
    loaded,             \* the embedded comment each from_tiff call returned, in order
    stripped,           \* jobs whose output file was rewritten, in order
    report,             \* htan_ome_metadata.xlsx: whether it was written, its rows
    applied             \* deidentification steps applied to one file (SpecDeid)

cfgVars == << version, skip1, skip2, rgb, input_dir, output_dir, dirListing >>

listVars == << files_to_convert, raw_dirs, out_files,
               chunked_files_to_convert, chunked_raw_dirs, chunked_out_files,
               num_chunks >>

poolVars == << i, launched, calls >>

metaVars == << m, res_list, tiff, loaded, stripped, report, applied >>

vars == << cfgVars, pc, error, listVars, poolVars, metaVars >>

-----------------------------------------------------------------------------
(* Bounds of the model *)

\* longest directory listing explored by the run specification
MaxFiles == 12
\* longest directory listing explored by the partition specification
MaxLen == 26
\* longest file stem of the small-name listings
MaxStemLen == 3
\* external invocations allowed to exit non-zero in one run
MaxFailures == 1
\* images and structured annotations of the documents of the deidentification
\* specification, and the times the step is applied to one file
MaxImages == 2
MaxAnnotations == 2
MaxApply == 2

(* Program constants *)

\* the 10 of files_to_convert[x:x+10] and range(0, len(...), 10)
ChunkSize == 10
\* Pool(20)
PoolWidth == 20

\* an input directory that does not exist, and one that holds the given entries
NoDir == [exists |-> FALSE, entries |-> << >>]
Dir(entries) == [exists |-> TRUE, entries |-> entries]
NoError == "NoError"
\* no report file, and the report file holding the given rows
NoReport == [written |-> FALSE, rows |-> << >>]
ReportOf(rows) == [written |-> TRUE, rows |-> rows]
None == "None"

-----------------------------------------------------------------------------
(* Python str and list primitives *)

Min(a, b) == IF a < b THEN a ELSE b

\* l[a:b] for 0 <= a, 0 <= b (b is clamped to len(l))
Slice(l, a, b) == SubSeq(l, a + 1, Min(b, Len(l)))

\* l[:-1]
AllButLast(l) == SubSeq(l, 1, Len(l) - 1)

EndsWith(s, suf) ==
    /\ Len(s) >= Len(suf)
    /\ SubSeq(s, Len(s) - Len(suf) + 1, Len(s)) = suf

\* s.split('.')
RECURSIVE SplitDot(_)
SplitDot(s) ==
    IF \A k \in 1..Len(s) : s[k] # "."
    THEN << s >>
    ELSE LET k == CHOOSE k \in 1..Len(s) :
                      s[k] = "." /\ \A j \in 1..(k - 1) : s[j] # "."
         IN  << SubSeq(s, 1, k - 1) >> \o SplitDot(SubSeq(s, k + 1, Len(s)))

\* ''.join(parts)
RECURSIVE JoinEmpty(_)
JoinEmpty(parts) ==
    IF parts = << >> THEN << >> ELSE Head(parts) \o JoinEmpty(Tail(parts))

\* os.path.split(path)[1]: what follows the last '/'
OsPathSplitTail(path) ==
    IF \A k \in 1..Len(path) : path[k] # "/"
    THEN path
    ELSE LET k == CHOOSE k \in 1..Len(path) :
                      path[k] = "/" /\ \A j \in (k + 1)..Len(path) : path[j] # "/"
         IN  SubSeq(path, k + 1, Len(path))

\* decimal digits of a natural number
Digits == << "0", "1", "2", "3", "4", "5", "6", "7", "8", "9" >>
RECURSIVE NumStr(_)
NumStr(k) ==
    IF k < 10 THEN << Digits[k + 1] >>
    ELSE NumStr(k \div 10) \o << Digits[(k % 10) + 1] >>

-----------------------------------------------------------------------------
(* Discovery and partitioning *)

file_types == << << ".", "q", "p", "t", "i", "f", "f" >>,
                 << ".", "s", "v", "s" >>,
                 << ".", "s", "c", "n" >> >>

OmeTiffExt == << ".", "o", "m", "e", ".", "t", "i", "f", "f" >>

\* glob's '*' + filetype against one directory entry: the name ends with the
\* file type and does not start with a dot
GlobMatches(name, filetype) ==
    /\ EndsWith(name, filetype)
    /\ name[1] # "."

\* glob(input_dir + '/*' + filetype): the matching entries in listing order,
\* each prefixed by input_dir + '/'; nothing when the directory does not exist
Glob(dir, listing, filetype) ==
    IF ~listing.exists THEN << >>
    ELSE LET hits == SelectSeq(listing.entries,
                               LAMBDA n : GlobMatches(n, filetype))
         IN  [k \in 1..Len(hits) |-> dir \o << "/" >> \o hits[k]]

\* the loop over file_types accumulating files_to_convert
RECURSIVE GlobAll(_, _, _)
GlobAll(dir, listing, types) ==
    IF types = << >> THEN << >>
    ELSE Glob(dir, listing, Head(types)) \o GlobAll(dir, listing, Tail(types))

\* ''.join(file.split('.')[:-1])
OrigRawDir(file) == JoinEmpty(AllButLast(SplitDot(file)))

orig_raw_dirs(files) == [k \in 1..Len(files) |-> OrigRawDir(files[k])]

RawDirs(out, files) ==
    [k \in 1..Len(files) |->
        out \o << "/" >> \o OsPathSplitTail(orig_raw_dirs(files)[k])]

OutFiles(out, files) ==
    [k \in 1..Len(files) |->
        out \o << "/" >> \o OsPathSplitTail(orig_raw_dirs(files)[k]) \o OmeTiffExt]

\* range(0, len(l), 10) as the number of its elements
NumRange(n, step) == (n + step - 1) \div step

\* a slice one element short
ChunkSliceShort(l, x) == Slice(l, x, x + ChunkSize - 1)

\* a slice one element too long
ChunkSliceLong(l, x) == Slice(l, x, x + ChunkSize + 1)

\* l[x:x+10]
ChunkSlice(l, x) == Slice(l, x, x + ChunkSize)

\* [l[x:x+10] for x in range(0, len(l), 10)]
Chunked(l) ==
    [c \in 1..NumRange(Len(l), ChunkSize) |-> ChunkSlice(l, (c - 1) * ChunkSize)]

-----------------------------------------------------------------------------
(* Directory listings used as inputs *)

\* the k-th entry of a long listing: a numbered stem, the file types in turn
FileName(k) == << "f" >> \o NumStr(k) \o file_types[(k % 3) + 1]

LongListing(n) == [k \in 1..n |-> FileName(k)]

StemChars == { "a", "b", "." }

\* stems of at most MaxStemLen characters that do not start with a dot
RECURSIVE StemsOfLen(_)
StemsOfLen(n) ==
    IF n = 1 THEN { << "a" >>, << "b" >> }
    ELSE { s \o << c >> : s \in StemsOfLen(n - 1), c \in StemChars }

Stems == UNION { StemsOfLen(n) : n \in 1..MaxStemLen }

TxtExt == << ".", "t", "x", "t" >>

SmallNames ==
    { s \o e : s \in Stems,
               e \in { file_types[1], file_types[2], file_types[3], TxtExt } }

\* listings of one or two distinct entries
SmallListings ==
    { << a >> : a \in SmallNames }
      \cup { p \in { << a, b >> : a \in SmallNames, b \in SmallNames } :
                 p[1] # p[2] }

Str_in == << "i", "n" >>
Str_out == << "o", "u", "t" >>
Str_d1 == << "d", ".", "1" >>

-----------------------------------------------------------------------------
(* Start of a script, after argument parsing (lines 57-83) *)

Start ==
    /\ pc = "discover"
    /\ error = NoError
    /\ files_to_convert = << >>
    /\ raw_dirs = << >>
    /\ out_files = << >>
    /\ chunked_files_to_convert = << >>
    /\ chunked_raw_dirs = << >>
    /\ chunked_out_files = << >>
    /\ num_chunks = 0
    /\ i = 0
    /\ launched = 0
    /\ calls = << >>
    /\ m = 0
    /\ res_list = << >>
    /\ tiff = << >>
    /\ loaded = << >>
    /\ stripped = << >>
    /\ report = NoReport
    /\ applied = 0

\* lines 89-93 (version 1: 76-79)
Discover ==
    /\ pc = "discover"
    /\ files_to_convert' = GlobAll(input_dir, dirListing, file_types)
    /\ pc' = "partition"
    /\ UNCHANGED << cfgVars, error, raw_dirs, out_files,
                    chunked_files_to_convert, chunked_raw_dirs,
                    chunked_out_files, num_chunks, poolVars, metaVars >>

\* version 4, lines 103-117
Partition ==
    /\ pc = "partition"
    /\ version = 4
    /\ raw_dirs' = RawDirs(output_dir, files_to_convert)
    /\ out_files' = OutFiles(output_dir, files_to_convert)
    /\ chunked_files_to_convert' = Chunked(files_to_convert)
    /\ chunked_raw_dirs' = Chunked(raw_dirs')
    /\ chunked_out_files' = Chunked(out_files')
    /\ num_chunks' = Len(chunked_out_files')
    /\ pc' = "stage1"
    /\ UNCHANGED << cfgVars, error, files_to_convert, poolVars, metaVars >>

-----------------------------------------------------------------------------
(* External invocations: subprocess.check_call inside a pool worker *)

\* the command line of do_bioformats2raw
Bioformats2rawArgv(file, raw_dir) ==
    [tool |-> "bioformats2raw", flags |-> << "--series=0" >>,
     args |-> << file, raw_dir >>]

\* a raw2ometiff command line with its two paths exchanged
Raw2ometiffArgvSwapped(raw_dir, outfile, isRgb) ==
    [tool |-> "raw2ometiff",
     flags |-> IF isRgb THEN << "--rgb" >> ELSE << >>,
     args |-> << outfile, raw_dir >>]

\* the command line of do_raw2ometiff_rgb and of do_raw2ometiff
Raw2ometiffArgv(raw_dir, outfile, isRgb) ==
    [tool |-> "raw2ometiff",
     flags |-> IF isRgb THEN << "--rgb" >> ELSE << >>,
     args |-> << raw_dir, outfile >>]

Call(stage, chunk, job, argv) ==
    [stage |-> stage, chunk |-> chunk, job |-> job, argv |-> argv,
     status |-> "running"]

Running == { c \in 1..Len(calls) : calls[c].status = "running" }
Failed == { c \in 1..Len(calls) : calls[c].status = "fail" }

\* zip(a, b) has the length of the shorter list
ZipLen(a, b) == Min(Len(a), Len(b))

\* the tasks pool.starmap receives for chunk i of a stage
WaveSize(stage) ==
    IF stage = 1
    THEN ZipLen(chunked_files_to_convert[i + 1], chunked_raw_dirs[i + 1])
    ELSE ZipLen(chunked_raw_dirs[i + 1], chunked_out_files[i + 1])

\* the calls of the pool now open
WaveCalls(stage) ==
    { c \in 1..Len(calls) : calls[c].stage = stage /\ calls[c].chunk = i }

\* a starmap that returns once the tasks are handed out
WaveCompleteEarly(stage) == launched = WaveSize(stage)

\* a starmap that waits for one result more than it has tasks
WaveCompleteOneMore(stage) ==
    /\ launched = WaveSize(stage) + 1
    /\ \A c \in WaveCalls(stage) : calls[c].status # "running"

\* a starmap that returns with the first result
WaveCompleteFirst(stage) ==
    /\ launched = WaveSize(stage)
    /\ \E c \in WaveCalls(stage) : calls[c].status # "running"

\* pool.starmap returns (or raises) once every task of the wave has finished
WaveComplete(stage) ==
    /\ launched = WaveSize(stage)
    /\ \A c \in WaveCalls(stage) : calls[c].status # "running"

\* a worker that swallows the exit status
WaveFailedNever(stage) == FALSE

\* a starmap that reports the outcome of the task handed out last only
WaveFailedLastOnly(stage) ==
    \E c \in WaveCalls(stage) :
        /\ calls[c].status = "fail"
        /\ \A d \in WaveCalls(stage) : d <= c

\* check_call raised CalledProcessError in a worker, starmap re-raises it
WaveFailed(stage) ==
    \E c \in WaveCalls(stage) : calls[c].status = "fail"

\* an external tool exits, with status 0 or not
ToolExit ==
    /\ \E c \in Running :
          \E st \in { "ok", "fail" } :
             /\ st = "fail" => Cardinality(Failed) < MaxFailures
             /\ calls' = [calls EXCEPT ![c].status = st]
    /\ UNCHANGED << cfgVars, pc, error, listVars, i, launched, metaVars >>

\* the uncaught exception ends the script
Raise(exc) ==
    /\ pc' = "aborted"
    /\ error' = exc

(* Version 4, stage 1: lines 126-130 *)

\* a stage-1 guard that ignores the flag
RunStage1Always == TRUE

\* if not args.skip_bioformats2raw
RunStage1 == ~skip1

\* if not args.skip_raw2ometiff
RunStage2 == ~skip2

Stage1Skip ==
    /\ version = 4 /\ pc = "stage1" /\ ~RunStage1
    /\ pc' = "stage2"
    /\ UNCHANGED << cfgVars, error, listVars, poolVars, metaVars >>

\* a pool worker takes the next task of the chunk and starts bioformats2raw
Stage1Launch ==
    /\ version = 4 /\ pc = "stage1" /\ RunStage1
    /\ i < num_chunks
    /\ launched < WaveSize(1)
    /\ Cardinality(Running) < PoolWidth
    /\ calls' = Append(calls,
                  Call(1, i, i * ChunkSize + launched + 1,
                       Bioformats2rawArgv(
                           chunked_files_to_convert[i + 1][launched + 1],
                           chunked_raw_dirs[i + 1][launched + 1])))
    /\ launched' = launched + 1
    /\ UNCHANGED << cfgVars, pc, error, listVars, i, metaVars >>

\* pool.starmap returns or raises; the with block ends
Stage1WaveEnd ==
    /\ version = 4 /\ pc = "stage1" /\ RunStage1
    /\ i < num_chunks
    /\ WaveComplete(1)
    /\ IF WaveFailed(1)
       THEN Raise("CalledProcessError") /\ UNCHANGED << i, launched >>
       ELSE i' = i + 1 /\ launched' = 0 /\ UNCHANGED << pc, error >>
    /\ UNCHANGED << cfgVars, listVars, calls, metaVars >>

Stage1End ==
    /\ version = 4 /\ pc = "stage1" /\ RunStage1
    /\ i = num_chunks
    /\ pc' = "stage2"
    /\ i' = 0
    /\ UNCHANGED << cfgVars, error, listVars, launched, calls, metaVars >>

(* Version 4, stage 2: lines 147-157 *)

Stage2Skip ==
    /\ version = 4 /\ pc = "stage2" /\ ~RunStage2
    /\ pc' = "meta"
    /\ UNCHANGED << cfgVars, error, listVars, poolVars, metaVars >>

\* a pool worker takes the next task of the chunk and starts raw2ometiff
Stage2Launch ==
    /\ version = 4 /\ pc = "stage2" /\ RunStage2
    /\ i < num_chunks
    /\ launched < WaveSize(2)
    /\ Cardinality(Running) < PoolWidth
    /\ calls' = Append(calls,
                  Call(2, i, i * ChunkSize + launched + 1,
                       Raw2ometiffArgv(
                           chunked_raw_dirs[i + 1][launched + 1],
                           chunked_out_files[i + 1][launched + 1], rgb)))
    /\ launched' = launched + 1
    /\ UNCHANGED << cfgVars, pc, error, listVars, i, metaVars >>

Stage2WaveEnd ==
    /\ version = 4 /\ pc = "stage2" /\ RunStage2
    /\ i < num_chunks
    /\ WaveComplete(2)
    /\ IF WaveFailed(2)
       THEN Raise("CalledProcessError") /\ UNCHANGED << i, launched >>
       ELSE i' = i + 1 /\ launched' = 0 /\ UNCHANGED << pc, error >>
    /\ UNCHANGED << cfgVars, listVars, calls, metaVars >>

Stage2End ==
    /\ version = 4 /\ pc = "stage2" /\ RunStage2
    /\ i = num_chunks
    /\ pc' = "meta"
    /\ i' = 0
    /\ UNCHANGED << cfgVars, error, listVars, launched, calls, metaVars >>

-----------------------------------------------------------------------------
(* The metadata library as the scripts use it: ot.from_tiff, ot.to_xml,     *)
(* tifffile.tiffcomment.  An OME object holds images, instruments and       *)
(* structured_annotations; an optional value that is absent is None.  The   *)
(* embedded comment is a list of elements in which absent values and empty  *)
(* collections are left out.                                                *)

Elements(xml, tag) == SelectSeq(xml, LAMBDA e : e.tag = tag)

\* ot.to_xml(ome)
ObjectiveToXml(o) ==
    [tag |-> "Objective", Model |-> o.model,
     NominalMagnification |-> o.nominal_magnification]

InstrumentToXml(ins) ==
    [tag |-> "Instrument",
     children |->
        (IF ins.microscope = None THEN << >>
         ELSE << [tag |-> "Microscope", Model |-> ins.microscope] >>)
        \o [k \in 1..Len(ins.objectives) |-> ObjectiveToXml(ins.objectives[k])]]

ImageToXml(img) ==
    [tag |-> "Image", ID |-> img.id,
     children |->
        (IF img.acquisition_date = None THEN << >>
         ELSE << [tag |-> "AcquisitionDate", text |-> img.acquisition_date] >>)
        \o << [tag |-> "Pixels", SizeX |-> img.pixels.size_x,
               PhysicalSizeX |-> img.pixels.physical_size_x,
               planes |-> img.pixels.planes] >>]

ToXml(ome) ==
    [k \in 1..Len(ome.instruments) |-> InstrumentToXml(ome.instruments[k])]
    \o [k \in 1..Len(ome.images) |-> ImageToXml(ome.images[k])]
    \o (IF ome.structured_annotations = << >> THEN << >>
        ELSE << [tag |-> "StructuredAnnotations",
                 children |-> ome.structured_annotations] >>)

\* ot.from_tiff(file) on a file whose embedded comment is xml
ObjectiveFromXml(e) ==
    [model |-> e.Model, nominal_magnification |-> e.NominalMagnification]

InstrumentFromXml(e) ==
    LET mic == Elements(e.children, "Microscope")
        objs == Elements(e.children, "Objective")
    IN  [microscope |-> IF mic = << >> THEN None ELSE mic[1].Model,
         objectives |-> [k \in 1..Len(objs) |-> ObjectiveFromXml(objs[k])]]

ImageFromXml(e) ==
    LET date == Elements(e.children, "AcquisitionDate")
        px == Elements(e.children, "Pixels")[1]
    IN  [id |-> e.ID,
         acquisition_date |-> IF date = << >> THEN None ELSE date[1].text,
         pixels |-> [size_x |-> px.SizeX,
                     physical_size_x |-> px.PhysicalSizeX,
                     planes |-> px.planes]]

FromXml(xml) ==
    LET ins == Elements(xml, "Instrument")
        imgs == Elements(xml, "Image")
        sa == Elements(xml, "StructuredAnnotations")
    IN  [instruments |-> [k \in 1..Len(ins) |-> InstrumentFromXml(ins[k])],
         images |-> [k \in 1..Len(imgs) |-> ImageFromXml(imgs[k])],
         structured_annotations |->
             IF sa = << >> THEN << >> ELSE sa[1].children]

\* what from_tiff finds where there is no file
Missing == << [tag |-> "ENOENT"] >>

(* The metadata loop body, lines 221-246 *)

\* the whole path as the file name
MetaFilenameFull(file) == file

\* filename = os.path.split(file)[1]
MetaFilename(file) == OsPathSplitTail(file)

\* the exception get_img_metadata raises on this object, if any: the dict is
\* evaluated in key order
GetImgMetadataError(ome1) ==
    IF ome1.instruments = << >> THEN "IndexError"
    ELSE IF ome1.instruments[1].microscope = None THEN "AttributeError"
    ELSE IF ome1.instruments[1].objectives = << >> THEN "IndexError"
    ELSE IF ome1.images = << >> THEN "IndexError"
    ELSE NoError

\* get_img_metadata(ome1, filename): the fields read from the object and the
\* file name (the other keys are constants of the script)
get_img_metadata(ome1, filename) ==
    [Filename |-> filename,
     Microscope |-> ome1.instruments[1].microscope,
     Objective |-> ome1.instruments[1].objectives[1].model,
     NominalMagnification |->
         ome1.instruments[1].objectives[1].nominal_magnification,
     ImageID |-> ome1.images[1].id,
     PhysicalSizeX |-> ome1.images[1].pixels.physical_size_x,
     PlaneCount |-> Len(ome1.images[1].pixels.planes),
     SizeX |-> ome1.images[1].pixels.size_x]

\* the date of the first image cleared only
ClearFirstDate(images) ==
    [k \in 1..Len(images) |->
        IF k = 1 THEN [images[k] EXCEPT !.acquisition_date = None]
        ELSE images[k]]

\* lines 236-237: acquisition_date = None on every image
ClearDates(images) ==
    [k \in 1..Len(images) |-> [images[k] EXCEPT !.acquisition_date = None]]

\* only the first annotation removed
DropFirstAnnotation(annotations) ==
    IF annotations = << >> THEN << >> ELSE Tail(annotations)

\* line 240: structured_annotations = []
ClearAnnotations(annotations) == << >>

\* lines 236-240
Strip(ome) ==
    [ome EXCEPT !.images = ClearDates(@),
                !.structured_annotations = ClearAnnotations(@)]

\* tifffile.tiffcomment(file, comment)
Put(disk, file, xml) ==
    [f \in (DOMAIN disk) \cup { file } |-> IF f = file THEN xml ELSE disk[f]]

\* a loop body that strips and writes the file back before it builds the row
LoopBodyStripFirst(j, file, xml) ==
    LET ome == FromXml(xml)
        filename == MetaFilename(file)
    IN  IF xml = Missing
        THEN /\ Raise("FileNotFoundError")
             /\ UNCHANGED << res_list, tiff, loaded, stripped >>
        ELSE IF GetImgMetadataError(ome) # NoError
        THEN /\ Raise(GetImgMetadataError(ome))
             /\ loaded' = Append(loaded, xml)
             /\ tiff' = Put(tiff, file, ToXml(Strip(ome)))
             /\ UNCHANGED << res_list, stripped >>
        ELSE /\ loaded' = Append(loaded, xml)
             /\ res_list' = Append(res_list, get_img_metadata(ome, filename))
             /\ tiff' = Put(tiff, file, ToXml(Strip(ome)))
             /\ stripped' = Append(stripped, j)
             /\ UNCHANGED << pc, error >>

\* the loop body on job j, whose output file holds xml
LoopBody(j, file, xml) ==
    LET ome == FromXml(xml)
        filename == MetaFilename(file)
    IN  IF xml = Missing
        THEN /\ Raise("FileNotFoundError")
             /\ UNCHANGED << res_list, tiff, loaded, stripped >>
        ELSE IF GetImgMetadataError(ome) # NoError
        THEN /\ Raise(GetImgMetadataError(ome))
             /\ loaded' = Append(loaded, xml)
             /\ tiff' = Put(tiff, file, xml)
             /\ UNCHANGED << res_list, stripped >>
        ELSE /\ loaded' = Append(loaded, xml)
             /\ res_list' = Append(res_list, get_img_metadata(ome, filename))
             /\ tiff' = Put(tiff, file, ToXml(Strip(ome)))
             /\ stripped' = Append(stripped, j)
             /\ UNCHANGED << pc, error >>

\* pd.concat(res_list).fillna(""): None becomes the empty string
Fill(v) == IF v = None THEN "" ELSE v

FillNa(rows) ==
    [k \in 1..Len(rows) |->
        [rows[k] EXCEPT !.Microscope = Fill(@), !.Objective = Fill(@),
                        !.NominalMagnification = Fill(@),
                        !.PhysicalSizeX = Fill(@)]]

(* Documents the external tools leave in an output file *)

ScanDate == "2023-04-13T10:00:00"

\* a slide with its scanner, objective, one dated image and one annotation
ScannerDoc ==
    [instruments |->
        << [microscope |-> "Aperio",
            objectives |-> << [model |-> None,
                               nominal_magnification |-> "20.0"] >>] >>,
     images |->
        << [id |-> "Image:0", acquisition_date |-> ScanDate,
            pixels |-> [size_x |-> "1024", physical_size_x |-> None,
                        planes |-> << "Plane:0" >>]] >>,
     structured_annotations |-> << "Annotation:0" >>]

\* a slide whose metadata declares no instrument
NoInstrumentDoc == [ScannerDoc EXCEPT !.instruments = << >>]

RunDocs == { ScannerDoc, NoInstrumentDoc }

\* raw2ometiff exited with status 0 for this output path in this run
Produced(file) ==
    \E c \in 1..Len(calls) :
        /\ calls[c].stage = 2
        /\ calls[c].status = "ok"
        /\ calls[c].argv.args[2] = file

\* what from_tiff can find in file: what this run last read or wrote there,
\* else whatever a tool left there, or nothing when no tool of this run
\* produced it
Contents(file) ==
    IF file \in DOMAIN tiff THEN { tiff[file] }
    ELSE { ToXml(d) : d \in RunDocs }
           \cup (IF Produced(file) THEN { } ELSE { Missing })

(* Version 4, metadata loop and report: lines 217-257 *)

MetaStep ==
    /\ version = 4 /\ pc = "meta"
    /\ m < Len(out_files)
    /\ \E xml \in Contents(out_files[m + 1]) :
          LoopBody(m + 1, out_files[m + 1], xml)
    /\ m' = IF pc' = "aborted" THEN m ELSE m + 1
    /\ UNCHANGED << cfgVars, listVars, poolVars, report, applied >>

MetaEnd ==
    /\ pc = "meta"
    /\ m = Len(out_files)
    /\ pc' = "report"
    /\ UNCHANGED << cfgVars, error, listVars, poolVars, metaVars >>

\* pd.concat raises ValueError on an empty list; else fillna and to_excel
Report ==
    /\ pc = "report"
    /\ IF res_list = << >>
       THEN Raise("ValueError") /\ UNCHANGED report
       ELSE /\ report' = ReportOf(FillNa(res_list))
            /\ pc' = "done"
            /\ UNCHANGED error
    /\ UNCHANGED << cfgVars, listVars, poolVars, m, res_list, tiff, loaded,
                    stripped, applied >>

(* Version 1: sequential, lines 89-121 and 178-207 *)

\* lines 89-91
V1Partition ==
    /\ pc = "partition"
    /\ version = 1
    /\ raw_dirs' = RawDirs(output_dir, files_to_convert)
    /\ pc' = "stage1"
    /\ UNCHANGED << cfgVars, error, files_to_convert, out_files,
                    chunked_files_to_convert, chunked_raw_dirs,
                    chunked_out_files, num_chunks, poolVars, metaVars >>

\* iterations of the zip loop of a stage
V1LoopLen(stage) ==
    IF stage = 1 THEN ZipLen(files_to_convert, raw_dirs)
    ELSE ZipLen(raw_dirs, out_files)

V1Argv(stage) ==
    IF stage = 1
    THEN Bioformats2rawArgv(files_to_convert[i + 1], raw_dirs[i + 1])
    ELSE Raw2ometiffArgv(raw_dirs[i + 1], out_files[i + 1], rgb)

V1Stage(stage) == IF stage = 1 THEN "stage1" ELSE "stage2"

\* subprocess.check_call starts the tool (lines 106, 118, 121)
V1Call(stage) ==
    /\ version = 1 /\ pc = V1Stage(stage)
    /\ i < V1LoopLen(stage)
    /\ launched = 0
    /\ calls' = Append(calls, Call(stage, i, i + 1, V1Argv(stage)))
    /\ launched' = 1
    /\ UNCHANGED << cfgVars, pc, error, listVars, i, metaVars >>

\* check_call returns, or raises CalledProcessError
V1Return(stage) ==
    /\ version = 1 /\ pc = V1Stage(stage)
    /\ launched = 1
    /\ calls[Len(calls)].status # "running"
    /\ IF calls[Len(calls)].status = "fail"
       THEN Raise("CalledProcessError") /\ UNCHANGED << i, launched >>
       ELSE i' = i + 1 /\ launched' = 0 /\ UNCHANGED << pc, error >>
    /\ UNCHANGED << cfgVars, listVars, calls, metaVars >>

\* the stage-1 loop ends; line 110 builds out_files
V1Stage1End ==
    /\ version = 1 /\ pc = "stage1"
    /\ i = V1LoopLen(1)
    /\ out_files' = OutFiles(output_dir, files_to_convert)
    /\ pc' = "stage2"
    /\ i' = 0
    /\ UNCHANGED << cfgVars, error, files_to_convert, raw_dirs,
                    chunked_files_to_convert, chunked_raw_dirs,
                    chunked_out_files, num_chunks, launched, calls,
                    metaVars >>

V1Stage2End ==
    /\ version = 1 /\ pc = "stage2"
    /\ i = V1LoopLen(2)
    /\ pc' = "meta"
    /\ i' = 0
    /\ UNCHANGED << cfgVars, error, listVars, launched, calls, metaVars >>

\* line 182 reads the undefined name img
V1MetaStep ==
    /\ version = 1 /\ pc = "meta"
    /\ m < Len(out_files)
    /\ Raise("NameError")
    /\ UNCHANGED << cfgVars, listVars, poolVars, metaVars >>

-----------------------------------------------------------------------------
(* Run specification: one run of either script *)

Name_sample_svs == << "s", "a", "m", "p", "l", "e", ".", "s", "v", "s" >>
Name_a_svs == << "a", ".", "s", "v", "s" >>
Name_a_scn == << "a", ".", "s", "c", "n" >>
Name_notes_txt == << "n", "o", "t", "e", "s", ".", "t", "x", "t" >>

RunLengths == (0..3) \cup { MaxFiles }

RunListings ==
    { Dir(LongListing(n)) : n \in RunLengths }
      \cup { NoDir, Dir(<< Name_sample_svs >>), Dir(<< Name_notes_txt >>),
             Dir(<< Name_a_svs, Name_a_scn >>) }

Init ==
    /\ version \in { 1, 4 }
    /\ skip1 \in BOOLEAN /\ skip2 \in BOOLEAN /\ rgb \in BOOLEAN
    /\ version = 1 => ~skip1 /\ ~skip2
    /\ input_dir = Str_in
    /\ output_dir = Str_out
    /\ dirListing \in RunListings
    \* the longest listing is explored without --rgb only
    /\ dirListing = Dir(LongListing(MaxFiles)) => ~rgb
    /\ Start

Next ==
    \/ Discover
    \/ Partition
    \/ Stage1Skip
    \/ Stage1Launch
    \/ Stage1WaveEnd
    \/ Stage1End
    \/ Stage2Skip
    \/ Stage2Launch
    \/ Stage2WaveEnd
    \/ Stage2End
    \/ ToolExit
    \/ MetaStep
    \/ MetaEnd
    \/ Report
    \/ V1Partition
    \/ V1Call(1)
    \/ V1Return(1)
    \/ V1Stage1End
    \/ V1Call(2)
    \/ V1Return(2)
    \/ V1Stage2End
    \/ V1MetaStep

Spec == Init /\ [][Next]_vars

-----------------------------------------------------------------------------
(* Deidentification specification: the loop body applied again and again to *)
(* one output file                                                          *)

ImageOf(k, date) ==
    [id |-> IF k = 1 THEN "Image:0" ELSE IF k = 2 THEN "Image:1" ELSE "Image:n",
     acquisition_date |-> date,
     pixels |-> [size_x |-> "1024", physical_size_x |-> None,
                 planes |-> << "Plane:0" >>]]

ImageLists ==
    UNION { { [k \in 1..n |-> ImageOf(k, dates[k])] :
                dates \in [1..n -> { None, ScanDate }] } : n \in 0..MaxImages }

AnnotationLists ==
    { [k \in 1..n |-> IF k = 1 THEN "Annotation:0" ELSE "Annotation:n"] :
        n \in 0..MaxAnnotations }

InstrumentLists ==
    { << >> }
      \cup { << [microscope |-> mic, objectives |-> objs] >> :
               mic \in { None, "Aperio" },
               objs \in { << >>,
                          << [model |-> None,
                              nominal_magnification |-> "20.0"] >> } }

DeidDocs ==
    { [instruments |-> ins, images |-> imgs, structured_annotations |-> sa] :
        ins \in InstrumentLists, imgs \in ImageLists, sa \in AnnotationLists }

\* a run with both skip flags over one source file, at the start of the
\* metadata loop
InitDeid ==
    /\ version = 4
    /\ skip1 = TRUE /\ skip2 = TRUE /\ rgb = FALSE
    /\ input_dir = Str_in
    /\ output_dir = Str_out
    /\ dirListing = Dir(<< Name_a_svs >>)
    /\ pc = "meta"
    /\ error = NoError
    /\ files_to_convert = GlobAll(input_dir, dirListing, file_types)
    /\ raw_dirs = RawDirs(output_dir, files_to_convert)
    /\ out_files = OutFiles(output_dir, files_to_convert)
    /\ chunked_files_to_convert = Chunked(files_to_convert)
    /\ chunked_raw_dirs = Chunked(raw_dirs)
    /\ chunked_out_files = Chunked(out_files)
    /\ num_chunks = Len(chunked_out_files)
    /\ i = 0
    /\ launched = 0
    /\ calls = << >>
    /\ m = 0
    /\ res_list = << >>
    /\ \E d \in DeidDocs : tiff = Put(<< >>, out_files[1], ToXml(d))
    /\ loaded = << >>
    /\ stripped = << >>
    /\ report = NoReport
    /\ applied = 0

\* lines 221-246 on the one file, once more
DeidApply ==
    /\ pc = "meta"
    /\ applied < MaxApply
    /\ LoopBody(1, out_files[1], tiff[out_files[1]])
    /\ applied' = applied + 1
    /\ UNCHANGED << cfgVars, listVars, poolVars, m, report >>

NextDeid == DeidApply

SpecDeid == InitDeid /\ [][NextDeid]_vars

-----------------------------------------------------------------------------
(* Partition specification: discovery and partitioning of any listing *)

InitPartition ==
    /\ version = 4
    /\ skip1 = FALSE /\ skip2 = FALSE /\ rgb = FALSE
    /\ output_dir = Str_out
    /\ \/ /\ input_dir \in { Str_in, Str_d1 }
          /\ dirListing \in { Dir(LongListing(n)) : n \in 0..MaxLen }
       \/ /\ input_dir = Str_in
          /\ dirListing \in { Dir(l) : l \in SmallListings }
    /\ Start

NextPartition == Discover \/ Partition

SpecPartition == InitPartition /\ [][NextPartition]_vars

-----------------------------------------------------------------------------
(* Properties *)

Jobs == 1..Len(files_to_convert)

CallsOf(stage, j) ==
    { c \in 1..Len(calls) : calls[c].stage = stage /\ calls[c].job = j }

OkCallsOf(stage, j) == { c \in CallsOf(stage, j) : calls[c].status = "ok" }

Terminal == pc \in { "done", "aborted" }

Range(seq) == { seq[k] : k \in 1..Len(seq) }

RECURSIVE Flatten(_)
Flatten(ll) == IF ll = << >> THEN << >> ELSE Head(ll) \o Flatten(Tail(ll))

Partitioned == pc \notin { "discover", "partition" }

\* the conversion loops of the script are behind it
ConversionOver ==
    \/ pc \in { "meta", "report", "done" }
    \/ pc = "aborted" /\ error # "CalledProcessError"

\* C1: when exactly one external invocation of one job exits non-zero, the
\* run still ends with every other job invoked for each stage that is not
\* skipped, and with a report that was written and has no row for the failed
\* job.  (Stated for runs whose jobs have pairwise different output files.)
Isolation ==
    (/\ version = 4 /\ Terminal /\ Cardinality(Failed) = 1
     /\ \A j \in Jobs, k \in Jobs : j # k => out_files[j] # out_files[k]) =>
        LET bad == calls[CHOOSE c \in Failed : TRUE].job
        IN  /\ \A j \in Jobs \ { bad } :
                  /\ RunStage1 => CallsOf(1, j) # { }
                  /\ RunStage2 => CallsOf(2, j) # { }
            /\ Jobs \ { bad } # { } =>
                  /\ report.written
                  /\ \A k \in 1..Len(report.rows) :
                        report.rows[k].Filename
                            # OsPathSplitTail(out_files[bad])

\* C2: every invocation in flight belongs to the wave launched last: no
\* invocation of another chunk or stage was started while it ran, so all
\* invocations in flight share one stage and one chunk.
ChunkBarrier ==
    \A c \in Running :
        \A d \in 1..Len(calls) :
            (calls[d].stage # calls[c].stage \/ calls[d].chunk # calls[c].chunk)
                => (d < c /\ calls[d].status # "running")

\* C2 witness: two invocations of stage 2 of the second chunk are in flight
ChunkBarrierWitness ==
    /\ version = 4
    /\ \E c \in Running, d \in Running :
          /\ c # d
          /\ calls[c].stage = 2 /\ calls[c].chunk = 1
          /\ calls[d].stage = 2 /\ calls[d].chunk = 1

\* C3: the chunks concatenated in order give back the list; every chunk has
\* between 1 and 10 elements; only the last may have fewer than 10; there are
\* ceil(L/10) chunks; 25 files give chunks of 10, 10 and 5.
ChunkingOf(l, ch) ==
    /\ Flatten(ch) = l
    /\ \A c \in 1..Len(ch) : Len(ch[c]) >= 1 /\ Len(ch[c]) <= 10
    /\ \A c \in 1..(Len(ch) - 1) : Len(ch[c]) = 10
    /\ 10 * (Len(ch) - 1) < Len(l) \/ (Len(l) = 0 /\ Len(ch) = 0)
    /\ Len(l) <= 10 * Len(ch)
    /\ Len(l) = 25 => [c \in 1..Len(ch) |-> Len(ch[c])] = << 10, 10, 5 >>

Chunking ==
    (version = 4 /\ Partitioned) =>
        /\ ChunkingOf(files_to_convert, chunked_files_to_convert)
        /\ ChunkingOf(raw_dirs, chunked_raw_dirs)
        /\ ChunkingOf(out_files, chunked_out_files)
        /\ num_chunks = Len(chunked_files_to_convert)

\* C3 witness: 25 files were partitioned into three chunks
ChunkingWitness ==
    /\ Partitioned
    /\ Len(files_to_convert) = 25
    /\ num_chunks = 3
    /\ Len(chunked_files_to_convert[3]) = 5

\* C4: with neither stage skipped, a job whose output file was rewritten had
\* a stage-1 and a stage-2 invocation that both exited with status 0; and no
\* job with a failed invocation ever has its output file rewritten.
MetadataAfterBothStages ==
    /\ (~skip1 /\ ~skip2) =>
          \A j \in Range(stripped) :
              OkCallsOf(1, j) # { } /\ OkCallsOf(2, j) # { }
    /\ \A c \in Failed : calls[c].job \notin Range(stripped)

\* C4 witness: a file was rewritten in a run that skipped no stage
MetadataAfterBothStagesWitness ==
    /\ version = 4 /\ ~skip1 /\ ~skip2
    /\ Len(stripped) >= 2

\* what is left of a name when only its final extension is removed
StripFinalExt(name) ==
    LET k == CHOOSE k \in 1..Len(name) :
                 name[k] = "." /\ \A j \in (k + 1)..Len(name) : name[j] # "."
    IN  SubSeq(name, 1, k - 1)

\* C5: two jobs of one run have different intermediate directories and
\* different output files.
NoCollision ==
    Partitioned =>
        \A j \in Jobs, k \in Jobs :
            j # k => raw_dirs[j] # raw_dirs[k] /\ out_files[j] # out_files[k]

\* C6: intermediate_dir is the output root joined to the source's basename
\* without its final extension, interior dots kept; output_path is that plus
\* '.ome.tiff'.
PathDerivation ==
    Partitioned =>
        \A j \in Jobs :
            LET stem == StripFinalExt(OsPathSplitTail(files_to_convert[j]))
            IN  /\ raw_dirs[j] = output_dir \o << "/" >> \o stem
                /\ out_files[j] = output_dir \o << "/" >> \o stem \o OmeTiffExt

\* C7: a second (and any later) application of the step to a file the step
\* already processed raises nothing and leaves the embedded document as the
\* first application left it.
DeidIdempotent ==
    applied >= 2 =>
        /\ error = NoError
        /\ pc = "meta"
        /\ \A k \in 2..applied : loaded[k] = tiff[out_files[1]]

\* C7 witness: the step ran twice on a file whose dates and annotations the
\* first application removed
DeidIdempotentWitness ==
    /\ applied = 2
    /\ error = NoError
    /\ loaded[1] # loaded[2]
    /\ Len(FromXml(loaded[1]).structured_annotations) = 2
    /\ \E k \in 1..Len(FromXml(loaded[1]).images) :
          FromXml(loaded[1]).images[k].acquisition_date # None

\* C8: a skipped stage is never invoked; a stage that is not skipped is
\* invoked at most once per job, and once per job when the conversion loops
\* have ended; with both flags set nothing is invoked and a run that
\* completes has rewritten and reported every job's output file.
SkipFlags ==
    /\ skip1 => \A c \in 1..Len(calls) : calls[c].stage # 1
    /\ skip2 => \A c \in 1..Len(calls) : calls[c].stage # 2
    /\ \A j \in Jobs :
          /\ Cardinality(CallsOf(1, j)) <= 1
          /\ Cardinality(CallsOf(2, j)) <= 1
          /\ (ConversionOver /\ ~skip1) => Cardinality(CallsOf(1, j)) = 1
          /\ (ConversionOver /\ ~skip2) => Cardinality(CallsOf(2, j)) = 1
    /\ (skip1 /\ skip2) =>
          /\ calls = << >>
          /\ pc = "done" =>
                /\ Range(stripped) = Jobs
                /\ report.written
                /\ Len(report.rows) = Len(out_files)

\* C8 witness: stage 1 was skipped and stage 2 ran once for each of more
\* than ten jobs
SkipFlagsWitness ==
    /\ skip1 /\ ~skip2
    /\ pc = "done"
    /\ Len(files_to_convert) > 10
    /\ \A j \in Jobs : Cardinality(CallsOf(2, j)) = 1

\* C9: at the report step every job was stripped, and the rows are one per
\* stripped job, in job-list order, each with the basename of the job's
\* output_path as its Filename.
RowsMatch(rows) ==
    /\ Len(rows) = Len(stripped)
    /\ \A k \in 1..Len(rows) :
          rows[k].Filename = OsPathSplitTail(out_files[stripped[k]])

ReportContent ==
    /\ pc \in { "report", "done" } =>
          /\ stripped = [k \in 1..Len(out_files) |-> k]
          /\ RowsMatch(res_list)
    /\ report.written => RowsMatch(report.rows)

\* C9 witness: a report of more than ten rows was written
ReportContentWitness ==
    /\ report.written
    /\ Len(report.rows) > 10

\* C10: when the input directory holds no matching file, the job list and
\* the chunk list are empty, nothing is invoked and the run of version 4
\* ends without an error.
EmptyInputCompletes ==
    (/\ version = 4 /\ dirListing.exists
     /\ Partitioned /\ files_to_convert = << >>) =>
        /\ out_files = << >>
        /\ chunked_files_to_convert = << >>
        /\ calls = << >>
        /\ pc # "aborted"
        /\ error = NoError

\* C11: when the input directory does not exist, discovery fails with
\* InvalidInputPath: the run stops there in an error state, with no job, no
\* external invocation and no report.
MissingInputDirFails ==
    (~dirListing.exists /\ pc # "discover") =>
        /\ pc = "aborted"
        /\ error = "InvalidInputPath"
        /\ files_to_convert = << >>
        /\ calls = << >>
        /\ ~report.written

\* C12: in every state at most ChunkSize invocations are in flight, although
\* the pool is PoolWidth wide.
ConcurrencyBound == Cardinality(Running) <= ChunkSize

ConcurrencyBoundWitness ==
    /\ version = 4
    /\ Cardinality(Running) = ChunkSize
    /\ ChunkSize < PoolWidth
    /\ Len(files_to_convert) > ChunkSize

\* C13: the status of a job only advances.  With both stages run, a stage-2
\* invocation of a job is started only after a stage-1 invocation of that job
\* exited with status 0; no job has two invocations of one stage, nor a
\* stage-1 invocation after a stage-2 one; no job is stripped twice; and once
\* a job is stripped no invocation runs or is started any more.
JobMonotonic ==
    /\ (RunStage1 /\ RunStage2) =>
          \A c \in 1..Len(calls) :
              calls[c].stage = 2 =>
                  \E d \in 1..(c - 1) :
                      /\ calls[d].stage = 1
                      /\ calls[d].job = calls[c].job
                      /\ calls[d].status = "ok"
    /\ \A c \in 1..Len(calls), d \in 1..Len(calls) :
          (c < d /\ calls[c].job = calls[d].job) =>
              calls[c].stage < calls[d].stage
    /\ \A a \in 1..Len(stripped), b \in 1..Len(stripped) :
          a < b => stripped[a] < stripped[b]
    /\ stripped # << >> =>
          /\ Running = { }
          /\ pc \notin { "stage1", "stage2" }
    /\ \A c \in 1..Len(calls) : calls[c].job \in Jobs
    /\ Range(stripped) \subseteq Jobs

JobMonotonicWitness ==
    /\ version = 4
    /\ Len(files_to_convert) > ChunkSize
    /\ \A j \in Jobs :
          /\ OkCallsOf(1, j) # { }
          /\ OkCallsOf(2, j) # { }
          /\ j \in Range(stripped)

\* A run in which every step that can be taken is taken in the end: the
\* interpreter goes on to its next statement, and every external tool and
\* every metadata operation returns.
SpecFair == Init /\ [][Next]_vars /\ WF_vars(Next)

\* C14: every run ends, completed with its report written or aborted with an
\* error; it does not wait forever at the barrier of a chunk.
Termination ==
    <>(\/ pc = "done" /\ report.written
       \/ pc = "aborted" /\ error # NoError)

TerminationWitness ==
    /\ version = 4
    /\ pc = "done" /\ report.written
    /\ num_chunks > 1
    /\ Len(calls) = 2 * Len(files_to_convert)

\* C15: once an external invocation has exited non-zero, every invocation of
\* the run belongs to the wave of the failed one or to an earlier wave, no
\* output file was read or rewritten, and no report is written.
FailFast ==
    \A c \in Failed :
        /\ \A d \in 1..Len(calls) :
              \/ calls[d].stage < calls[c].stage
              \/ /\ calls[d].stage = calls[c].stage
                 /\ calls[d].chunk <= calls[c].chunk
        /\ loaded = << >> /\ stripped = << >> /\ tiff = << >>
        /\ res_list = << >>
        /\ ~report.written
        /\ pc \in { "stage1", "stage2", "aborted" }
        /\ pc = "aborted" => error = "CalledProcessError"

FailFastWitness ==
    /\ version = 4
    /\ pc = "aborted"
    /\ \E c \in Failed : calls[c].stage = 1 /\ calls[c].chunk = 0
    /\ Len(files_to_convert) > ChunkSize
    /\ RunStage2

\* C16: after the step on a file, the document embedded in the file has no
\* acquisition date on any image and no structured annotation, and its
\* instruments, objectives, image ids, pixel geometry and planes are those of
\* the document the step loaded.
DeidEffectAndFrame ==
    (applied >= 1 /\ error = NoError) =>
        LET before == FromXml(loaded[Len(loaded)])
            after == FromXml(tiff[out_files[1]])
        IN  /\ \A k \in 1..Len(after.images) :
                  after.images[k].acquisition_date = None
            /\ after.structured_annotations = << >>
            /\ after.instruments = before.instruments
            /\ Len(after.images) = Len(before.images)
            /\ \A k \in 1..Len(before.images) :
                  /\ after.images[k].id = before.images[k].id
                  /\ after.images[k].pixels = before.images[k].pixels
            /\ DOMAIN tiff = { out_files[1] }

\* C16 witness: the step ran once on a document with two dated images, two
\* annotations and a microscope
DeidEffectAndFrameWitness ==
    /\ applied = 1 /\ error = NoError
    /\ LET before == FromXml(loaded[1])
       IN  /\ Len(before.images) = MaxImages
           /\ \A k \in 1..Len(before.images) :
                 before.images[k].acquisition_date = ScanDate
           /\ Len(before.structured_annotations) = MaxAnnotations
           /\ before.instruments[1].microscope # None
    /\ tiff[out_files[1]] # loaded[1]

\* the metadata pass has begun: a file was read or the loop was entered
MetadataBegun ==
    \/ pc \in { "meta", "report", "done" }
    \/ loaded # << >> \/ tiff # << >> \/ m > 0

\* C17: once the metadata pass has begun no external invocation is in flight
\* and none is left to start; the files are taken one at a time in list
\* order; the report is written only after the last job of the list was
\* rewritten, and once written it is not written again.
PhaseOrdering ==
    /\ MetadataBegun =>
          /\ Running = { }
          /\ version = 4 =>
                \A j \in Jobs :
                    /\ RunStage1 => OkCallsOf(1, j) # { }
                    /\ RunStage2 => OkCallsOf(2, j) # { }
    /\ \A k \in 1..Len(stripped) : stripped[k] = k
    /\ Len(stripped) = m
    /\ Len(loaded) \in { m, m + 1 }
    /\ Len(loaded) = m + 1 => pc = "aborted"
    /\ report.written =>
          /\ pc = "done"
          /\ m = Len(out_files)
          /\ Len(out_files) \in Range(stripped)
          /\ ~ENABLED Report

PhaseOrderingWitness ==
    /\ report.written
    /\ RunStage1 /\ RunStage2
    /\ num_chunks > 1
    /\ Len(stripped) = Len(out_files)

\* the location an invocation writes to: the intermediate directory for
\* bioformats2raw, the output file for raw2ometiff
WriteTarget(c) == calls[c].argv.args[2]

\* C18: no two invocations in flight at the same time write to the same
\* intermediate directory or to the same output file.
NoWriteRace ==
    \A c \in Running, d \in Running :
        c # d => WriteTarget(c) # WriteTarget(d)

\* loading the file or building its row raised
ExtractionFailed ==
    /\ pc = "aborted"
    /\ error \in { "FileNotFoundError", "IndexError", "AttributeError" }

\* C19: each row is built from the document as it was loaded.  When loading
\* a file or building its row fails, that file still holds the document that
\* was loaded, no file later in the list was touched, and every file earlier
\* in the list holds its stripped document.
ExtractionBeforeMutation ==
    /\ \A k \in 1..Len(res_list) :
          res_list[k] = get_img_metadata(FromXml(loaded[k]),
                                         MetaFilename(out_files[k]))
    /\ ExtractionFailed =>
          LET file == out_files[m + 1]
          IN  /\ Len(res_list) = m /\ Len(stripped) = m
              /\ IF error = "FileNotFoundError"
                 THEN Len(loaded) = m /\ file \notin DOMAIN tiff
                 ELSE Len(loaded) = m + 1 /\ tiff[file] = loaded[m + 1]
              /\ \A k \in 1..m :
                    tiff[out_files[k]] = ToXml(Strip(FromXml(loaded[k])))
              /\ DOMAIN tiff \subseteq { out_files[k] : k \in 1..(m + 1) }

\* C19 witness: the second of three files declares no instrument; the first
\* was rewritten, the third was not reached
ExtractionBeforeMutationWitness ==
    /\ ExtractionFailed
    /\ error = "IndexError"
    /\ m = 1
    /\ Len(out_files) = 3
    /\ tiff[out_files[1]] # loaded[1]
    /\ tiff[out_files[2]] # ToXml(Strip(FromXml(loaded[2])))

\* C20: the two paths of every invocation are those of one job, the job at
\* the list position the invocation was started for: source file and
\* intermediate directory in stage 1, intermediate directory and output file
\* in stage 2.  When both stages ran and the conversion is over, every job
\* has exactly one invocation of each stage.
ArgumentAlignment ==
    /\ \A c \in 1..Len(calls) :
          LET j == calls[c].job
              paths == calls[c].argv.args
          IN  /\ j \in Jobs
              /\ calls[c].stage = 1 =>
                    paths = << files_to_convert[j], raw_dirs[j] >>
              /\ calls[c].stage = 2 =>
                    paths = << raw_dirs[j], out_files[j] >>
    /\ (ConversionOver /\ RunStage1 /\ RunStage2) =>
          \A j \in Jobs :
              /\ Cardinality(CallsOf(1, j)) = 1
              /\ Cardinality(CallsOf(2, j)) = 1

\* C20 witness: a run of two chunks in which every job was converted, the
\* last one by invocations of the second chunk
ArgumentAlignmentWitness ==
    /\ version = 4 /\ RunStage1 /\ RunStage2
    /\ ConversionOver
    /\ Len(files_to_convert) = MaxFiles
    /\ \E c \in CallsOf(2, MaxFiles) :
          /\ calls[c].chunk = 1
          /\ calls[c].argv.args = << raw_dirs[MaxFiles], out_files[MaxFiles] >>
    /\ \E c \in CallsOf(1, ChunkSize) : calls[c].chunk = 0

=============================================================================
